---- MODULE Spec2Model ----
(***************************************************************************)
(* AffTok server-to-server example (backend/examples/python/main.py):      *)
(* the AfftokTracker client (send_postback, track_click,                   *)
(* send_batch_postbacks, close) and the FastAPI routes in front of it.     *)
(*                                                                         *)
(* Python values are tagged records [t |-> type, v |-> value]; dicts are   *)
(* functions from keys to values, so "key in dict" is k \in DOMAIN d.      *)
(* A coroutine is split at its await points: the POST (self.client.post)   *)
(* and the pause (asyncio.sleep).  The remote endpoint and the network are *)
(* the environment: they choose the outcome of each POST.                  *)
(***************************************************************************)
EXTENDS Integers, Sequences, FiniteSets, TLC

VARIABLES
    module_name,   \* __name__ of the module: "__main__" (run as a script) or "main" (imported by the ASGI server)
    closed,        \* the tracker's HTTP client has been closed
    now,           \* time.time() * 1000, in milliseconds since the start of the run
    ncalls,        \* tracker calls started so far
    route,         \* the facade route handling the call, "direct" for a direct tracker call
    op,            \* the tracker method running: "none", "send_postback", "track_click", "send_batch_postbacks"
    pc,            \* "idle", "posting" (awaiting client.post), "sleeping" (awaiting asyncio.sleep), "done"
    params,        \* the event being sent (the loop variable `conversion` in a batch)
    conversions,   \* send_batch_postbacks's argument
    idx,           \* position of `conversion` in conversions (1-based), 0 outside a batch
    results,       \* send_batch_postbacks's local list
    wire,          \* HTTP requests in flight
    response,      \* outcome of the last POST: a response or an exception
    result,        \* what the last send_postback / track_click returned
    ended,         \* how the tracker call ended: "no", "returned", "raised"
    retval,        \* the tracker call's return value
    exc,           \* the exception type the tracker call raised ("" when none)
    http,          \* the facade's HTTP answer
    attempted,     \* history: the events POSTed by the current call, in order
    pauses         \* history: completed asyncio.sleep pauses of the current call

vars == <<module_name, closed, now, ncalls, route, op, pc, params, conversions, idx,
          results, wire, response, result, ended, retval, exc, http, attempted, pauses>>

--------------------------------------------------------------------------
(* Bounds *)

MaxBatch == 2
MaxCalls == 2

--------------------------------------------------------------------------
(* Python values *)

PyNone == [t |-> "NoneType"]
PyStr(s) == [t |-> "str", v |-> s]
PyInt(n) == [t |-> "int", v |-> n]
PyFloat(n) == [t |-> "float", v |-> n]
PyDict(d) == [t |-> "dict", v |-> d]

EmptyDict == <<>>

\* the value of a variable that holds nothing yet
Nothing == <<>>

\* bool(x): None, "", 0 and {} are falsy
Truthy(x) ==
    CASE x.t = "NoneType" -> FALSE
      [] x.t = "str" -> x.v # ""
      [] x.t = "int" -> x.v # 0
      [] x.t = "float" -> x.v # 0
      [] x.t = "dict" -> DOMAIN x.v # {}

\* d[k] = v on a dict
With(d, k, v) == [x \in DOMAIN d \cup {k} |-> IF x = k THEN v ELSE d[x]]

\* {**a, **b}
DictMerge(a, b) == [x \in DOMAIN a \cup DOMAIN b |-> IF x \in DOMAIN b THEN b[x] ELSE a[x]]

--------------------------------------------------------------------------
(* Configuration and credentials *)

API_KEY == "your_api_key"
ADVERTISER_ID == "your_advertiser_id"
BASE_URL == "https://api.afftok.com"

\* asyncio.sleep(0.1), in milliseconds
SleepMs == 100

--------------------------------------------------------------------------
(* Signing *)

\* random.choice over ascii letters and digits, 32 times: two of the possible draws
Nonces == {"Zx81kQpL0aYt3MnB7cVd5EfG9hJi2KlO", "a1B2c3D4e5F6g7H8i9J0kLmNoPqRsTuV"}

data_to_sign(timestamp, nonce) ==
    API_KEY \o "|" \o ADVERTISER_ID \o "|" \o ToString(timestamp) \o "|" \o nonce

\* hmac.new(key, msg, sha256).hexdigest(): an uninterpreted function of key and message
hmac_sha256_hexdigest(key, msg) == "hmac_sha256(" \o key \o "," \o msg \o ")"

generate_signature(timestamp, nonce) ==
    hmac_sha256_hexdigest(API_KEY, data_to_sign(timestamp, nonce))

--------------------------------------------------------------------------
(* Events: the inputs a caller may pass *)

TransactionIds == {"T1", "T2", "T3"}

OptStr(s) == {PyNone, PyStr(""), PyStr(s)}
OptAmount == {PyNone, PyFloat(0), PyFloat(10)}
OptDict == {PyNone, PyDict(EmptyDict), PyDict([product_id |-> "prod_456"])}

\* ConversionParams: offer_id and transaction_id required, the rest optional or defaulted
ConversionParams ==
    [offer_id : {PyStr("offer_123")},
     transaction_id : {PyStr(t) : t \in TransactionIds},
     click_id : OptStr("click_abc123"),
     amount : OptAmount,
     currency : {PyStr("USD")},
     status : {PyStr("approved")},
     custom_params : OptDict]

ClickOptional == {"tracking_code", "sub_id_1", "sub_id_2", "sub_id_3", "ip", "user_agent", "custom_params"}

ClickUnset == [f \in ClickOptional \cup {"offer_id"} |-> IF f = "offer_id" THEN PyStr("offer_123") ELSE PyNone]

ClickValues(f) == IF f = "custom_params" THEN OptDict ELSE OptStr("x")

ClickAllEmpty ==
    [f \in DOMAIN ClickUnset |->
        IF f = "offer_id" THEN PyStr("offer_123")
        ELSE IF f = "custom_params" THEN PyDict(EmptyDict) ELSE PyStr("")]

ClickAllSet ==
    [f \in DOMAIN ClickUnset |->
        IF f = "offer_id" THEN PyStr("offer_123")
        ELSE IF f = "custom_params" THEN PyDict([product_id |-> "prod_456"]) ELSE PyStr("x")]

\* ClickParams: offer_id required; every optional field unset but one, all of them
\* empty, or all of them set
ClickParams ==
    UNION {{With(ClickUnset, f, v) : v \in ClickValues(f)} : f \in ClickOptional}
        \cup {ClickAllEmpty, ClickAllSet}

\* the events of a batch: the conversions of the script's example 4, which differ in
\* their transaction_id
BatchEvents ==
    {c \in ConversionParams :
        c.click_id = PyNone /\ c.amount = PyFloat(10) /\ c.custom_params = PyNone}

SeqsUpTo(S, n) == UNION {[1..k -> S] : k \in 0..n}

--------------------------------------------------------------------------
(* Payloads *)

Signed(timestamp, nonce) ==
    [timestamp |-> PyInt(timestamp),
     nonce |-> PyStr(nonce),
     signature |-> PyStr(generate_signature(timestamp, nonce))]

\* mutant: the key is set whether or not the field is given
AddAlways(payload, p, k) == With(payload, k, p[k])

\* `if x:` adds the key
AddIfTruthy(payload, p, k) == IF Truthy(p[k]) THEN With(payload, k, p[k]) ELSE payload

\* mutant: amount tested by truthiness, like the other optional fields
AddIfNonZero(payload, p, k) == IF Truthy(p[k]) THEN With(payload, k, p[k]) ELSE payload

\* `if x is not None:` adds the key
AddIfNotNone(payload, p, k) == IF p[k] # PyNone THEN With(payload, k, p[k]) ELSE payload

postback_payload(p, timestamp, nonce) ==
    LET base == DictMerge(
            [api_key |-> PyStr(API_KEY),
             advertiser_id |-> PyStr(ADVERTISER_ID),
             offer_id |-> p.offer_id,
             transaction_id |-> p.transaction_id,
             status |-> p.status,
             currency |-> p.currency],
            Signed(timestamp, nonce))
        p1 == AddIfTruthy(base, p, "click_id")
        p2 == AddIfNotNone(p1, p, "amount")
    IN  AddIfTruthy(p2, p, "custom_params")

click_payload(p, timestamp, nonce) ==
    LET base == DictMerge(
            [api_key |-> PyStr(API_KEY),
             advertiser_id |-> PyStr(ADVERTISER_ID),
             offer_id |-> p.offer_id],
            Signed(timestamp, nonce))
        p1 == AddIfTruthy(base, p, "tracking_code")
        p2 == AddIfTruthy(p1, p, "sub_id_1")
        p3 == AddIfTruthy(p2, p, "sub_id_2")
        p4 == AddIfTruthy(p3, p, "sub_id_3")
        p5 == AddIfTruthy(p4, p, "ip")
        p6 == AddIfTruthy(p5, p, "user_agent")
    IN  AddIfTruthy(p6, p, "custom_params")

Headers == [content_type |-> "application/json", x_api_key |-> API_KEY]

postback_request(p, timestamp, nonce) ==
    [url |-> BASE_URL \o "/api/postback", json |-> postback_payload(p, timestamp, nonce),
     headers |-> Headers]

click_request(p, timestamp, nonce) ==
    [url |-> BASE_URL \o "/api/sdk/click", json |-> click_payload(p, timestamp, nonce),
     headers |-> Headers]

--------------------------------------------------------------------------
(* What a POST may come back with *)

StatusCodes == {200, 299, 300, 422}

JsonBody == "{\"id\":\"abc\"}"

Bodies == {JsonBody, "invalid offer", ""}

\* exceptions of the transport (httpx.TransportError), with their str()
TransportErrors ==
    {[kind |-> "exception", type |-> "ConnectError", msg |-> "All connection attempts failed"],
     [kind |-> "exception", type |-> "ReadTimeout", msg |-> ""]}

Outcomes ==
    [kind : {"response"}, status_code : StatusCodes, text : Bodies] \cup TransportErrors

\* response.json(): the parsed body, or JSONDecodeError
JsonValid(text) == text = JsonBody

JsonLoads(text) == CASE text = JsonBody -> PyDict([id |-> "abc"])

JSONDecodeError ==
    [kind |-> "exception", type |-> "JSONDecodeError",
     msg |-> "Expecting value: line 1 column 1 (char 0)"]

\* the classes `except Exception` catches
ExceptionSubclasses == {"ConnectError", "ReadTimeout", "JSONDecodeError", "NameError"}

\* mutant: `except httpx.ConnectError` in place of `except Exception`
CaughtConnectErrorOnly(e) == e.type = "ConnectError"

Caught(e) == e.type \in ExceptionSubclasses

Return(v) == [how |-> "return", value |-> v]
Raise(e) == [how |-> "raise", exc |-> e]

\* str(e)
Str(e) == e.msg

\* mutant: 200 itself is not a success
IsSuccessStatusAbove200(status_code) == status_code > 200 /\ status_code < 300

\* mutant: 300 is a success too
IsSuccessStatusUpTo300(status_code) == status_code >= 200 /\ status_code <= 300

IsSuccessStatus(status_code) == status_code >= 200 /\ status_code < 300

\* the body of the try block: the value it returns, or the exception it ends with
try_block(o) ==
    IF o.kind = "exception" THEN Raise(o)
    ELSE IF IsSuccessStatus(o.status_code)
         THEN IF JsonValid(o.text)
              THEN Return([success |-> TRUE, data |-> JsonLoads(o.text)])
              ELSE Raise(JSONDecodeError)
         ELSE Return([success |-> FALSE, error |-> o.text])

\* try: ... except Exception as e: return {"success": False, "error": str(e)}
post_result(o) ==
    LET t == try_block(o)
    IN  IF t.how = "return" THEN t
        ELSE IF Caught(t.exc) THEN Return([success |-> FALSE, error |-> Str(t.exc)])
        ELSE t

--------------------------------------------------------------------------
(* The facade's answers *)

\* an exception that leaves a route handler: the framework answers 500
InternalServerError == [status_code |-> 500, detail |-> "Internal Server Error"]

\* mutant: the route returns the result without looking at result["success"]
single_route_response_unchecked(t) ==
    IF t.how = "raise" THEN [status_code |-> 500, detail |-> "Internal Server Error"]
    ELSE [status_code |-> 200, body |-> t.value]

\* /postback and /click: HTTPException(400, detail=result.get("error")) or the result
single_route_response(t) ==
    IF t.how = "raise" THEN InternalServerError
    ELSE IF ~t.value.success THEN [status_code |-> 400, detail |-> t.value.error]
    ELSE [status_code |-> 200, body |-> t.value]

\* /batch-postbacks: {"results": results}
batch_route_response(t) ==
    IF t.how = "raise" THEN InternalServerError
    ELSE [status_code |-> 200, body |-> [results |-> t.value]]

\* `asyncio` is a global of the module only after the `import asyncio` under
\* `if __name__ == "__main__":`
asyncio_bound == module_name = "__main__"

NameError == [kind |-> "exception", type |-> "NameError", msg |-> "name 'asyncio' is not defined"]

--------------------------------------------------------------------------
(* State *)

Routes == {"/postback", "/click", "/batch-postbacks"}

Init ==
    /\ module_name \in {"__main__", "main"}
    /\ closed = FALSE
    /\ now = 0
    /\ ncalls = 0
    /\ route = "direct"
    /\ op = "none"
    /\ pc = "idle"
    /\ params = Nothing
    /\ conversions = <<>>
    /\ idx = 0
    /\ results = <<>>
    /\ wire = <<>>
    /\ response = Nothing
    /\ result = Nothing
    /\ ended = "no"
    /\ retval = Nothing
    /\ exc = ""
    /\ http = Nothing
    /\ attempted = <<>>
    /\ pauses = 0

\* a call may start: the tracker is idle and open; the routes exist only in a served
\* (imported) module
MayStart(r) ==
    /\ pc = "idle"
    /\ ~closed
    /\ ncalls < MaxCalls
    /\ r \in Routes => module_name # "__main__"

\* the tracker call ends, returning t.value or raising t.exc; a route answers
End(t, answer) ==
    /\ pc' = "done"
    /\ ended' = IF t.how = "return" THEN "returned" ELSE "raised"
    /\ retval' = IF t.how = "return" THEN t.value ELSE Nothing
    /\ exc' = IF t.how = "return" THEN "" ELSE t.exc.type
    /\ http' = IF route' \in Routes THEN answer ELSE Nothing

--------------------------------------------------------------------------
(* AfftokTracker *)

Tracker_send_postback(r, p) ==
    /\ MayStart(r)
    /\ \E nonce \in Nonces : wire' = Append(wire, postback_request(p, now, nonce))
    /\ ncalls' = ncalls + 1
    /\ route' = r
    /\ op' = "send_postback"
    /\ pc' = "posting"
    /\ params' = p
    /\ attempted' = <<p>>
    /\ UNCHANGED <<module_name, closed, now, conversions, idx, results, response, result,
                   ended, retval, exc, http, pauses>>

Tracker_track_click(r, p) ==
    /\ MayStart(r)
    /\ \E nonce \in Nonces : wire' = Append(wire, click_request(p, now, nonce))
    /\ ncalls' = ncalls + 1
    /\ route' = r
    /\ op' = "track_click"
    /\ pc' = "posting"
    /\ params' = p
    /\ attempted' = <<p>>
    /\ UNCHANGED <<module_name, closed, now, conversions, idx, results, response, result,
                   ended, retval, exc, http, pauses>>

\* results = []; then the first pass of the loop up to its POST, or the return of []
Tracker_send_batch_postbacks(r, cs) ==
    /\ MayStart(r)
    /\ ncalls' = ncalls + 1
    /\ route' = r
    /\ op' = "send_batch_postbacks"
    /\ conversions' = cs
    /\ results' = <<>>
    /\ IF cs = <<>>
       THEN /\ End(Return(<<>>), batch_route_response(Return(<<>>)))
            /\ UNCHANGED <<params, idx, wire, attempted>>
       ELSE /\ \E nonce \in Nonces : wire' = Append(wire, postback_request(cs[1], now, nonce))
            /\ params' = cs[1]
            /\ idx' = 1
            /\ attempted' = <<cs[1]>>
            /\ pc' = "posting"
            /\ UNCHANGED <<ended, retval, exc, http>>
    /\ UNCHANGED <<module_name, closed, now, response, result, pauses>>

\* the POST of send_postback or track_click comes back: the rest of the method, and
\* of the route handler that awaited it
PostCompletes ==
    /\ pc = "posting"
    /\ op \in {"send_postback", "track_click"}
    /\ \E o \in Outcomes :
        LET t == post_result(o) IN
        /\ response' = o
        /\ wire' = Tail(wire)
        /\ result' = IF t.how = "return" THEN t.value ELSE Nothing
        /\ route' = route
        /\ End(t, single_route_response(t))
    /\ UNCHANGED <<module_name, closed, now, ncalls, op, params, conversions, idx,
                   results, attempted, pauses>>

\* the POST of a batch's send_postback comes back: results.append(...), then
\* `await asyncio.sleep(0.1)`, which is a NameError where asyncio is not bound
BatchPostCompletes ==
    /\ pc = "posting"
    /\ op = "send_batch_postbacks"
    /\ \E o \in Outcomes :
        LET t == post_result(o) IN
        /\ response' = o
        /\ wire' = Tail(wire)
        /\ route' = route
        /\ IF t.how = "raise"
           THEN /\ End(t, batch_route_response(t))
                /\ UNCHANGED <<result, results>>
           ELSE /\ result' = t.value
                /\ results' = Append(results,
                        DictMerge([transaction_id |-> params.transaction_id], t.value))
                /\ IF asyncio_bound
                   THEN /\ pc' = "sleeping"
                        /\ UNCHANGED <<ended, retval, exc, http>>
                   ELSE End(Raise(NameError), batch_route_response(Raise(NameError)))
    /\ UNCHANGED <<module_name, closed, now, ncalls, op, params, conversions, idx,
                   attempted, pauses>>

\* the pause is over: the next pass of the loop up to its POST, or `return results`
SleepCompletes ==
    /\ pc = "sleeping"
    /\ now' = now + SleepMs
    /\ pauses' = pauses + 1
    /\ route' = route
    /\ IF idx < Len(conversions)
       THEN /\ \E nonce \in Nonces :
                wire' = Append(wire, postback_request(conversions[idx + 1], now', nonce))
            /\ params' = conversions[idx + 1]
            /\ idx' = idx + 1
            /\ attempted' = Append(attempted, conversions[idx + 1])
            /\ pc' = "posting"
            /\ UNCHANGED <<ended, retval, exc, http>>
       ELSE /\ End(Return(results), batch_route_response(Return(results)))
            /\ UNCHANGED <<params, idx, wire, attempted>>
    /\ UNCHANGED <<module_name, closed, ncalls, op, conversions, results, response, result>>

\* the caller has the call's outcome; the tracker is idle again
CallerResumes ==
    /\ pc = "done"
    /\ pc' = "idle"
    /\ route' = "direct"
    /\ op' = "none"
    /\ params' = Nothing
    /\ conversions' = <<>>
    /\ idx' = 0
    /\ results' = <<>>
    /\ response' = Nothing
    /\ result' = Nothing
    /\ ended' = "no"
    /\ retval' = Nothing
    /\ exc' = ""
    /\ http' = Nothing
    /\ attempted' = <<>>
    /\ pauses' = 0
    /\ UNCHANGED <<module_name, closed, now, ncalls, wire>>

\* await self.client.aclose(): by shutdown_event, or at the end of the script's main()
close ==
    /\ pc = "idle"
    /\ ~closed
    /\ closed' = TRUE
    /\ UNCHANGED <<module_name, now, ncalls, route, op, pc, params, conversions, idx,
                   results, wire, response, result, ended, retval, exc, http, attempted,
                   pauses>>

--------------------------------------------------------------------------
(* Callers: direct calls of the tracker, and the FastAPI routes *)

direct_send_postback == \E p \in ConversionParams : Tracker_send_postback("direct", p)

direct_track_click == \E p \in ClickParams : Tracker_track_click("direct", p)

direct_send_batch_postbacks ==
    \E cs \in SeqsUpTo(BatchEvents, MaxBatch) : Tracker_send_batch_postbacks("direct", cs)

send_postback == \E p \in ConversionParams : Tracker_send_postback("/postback", p)

track_click == \E p \in ClickParams : Tracker_track_click("/click", p)

batch_postbacks ==
    \E cs \in SeqsUpTo(BatchEvents, MaxBatch) :
        Tracker_send_batch_postbacks("/batch-postbacks", cs)

Next ==
    \/ direct_send_postback
    \/ direct_track_click
    \/ direct_send_batch_postbacks
    \/ send_postback
    \/ track_click
    \/ batch_postbacks
    \/ PostCompletes
    \/ BatchPostCompletes
    \/ SleepCompletes
    \/ CallerResumes
    \/ close

Spec == Init /\ [][Next]_vars

--------------------------------------------------------------------------
(* Properties *)

SingleOps == {"send_postback", "track_click"}
Batch == "send_batch_postbacks"

PostbackUrl == "https://api.afftok.com/api/postback"

\* a POST has come back and the tracker call it belongs to is still in hand
Answered == pc \in {"sleeping", "done"} /\ response # Nothing

InRange(status_code) == 200 <= status_code /\ status_code <= 299

(* C1: a transport-level failure of the POST (connection error, timeout) makes
   send_postback / track_click return success=false with error = str(exception);
   the call never ends by raising. *)
C1_TransportFailureReturned ==
    (Answered /\ response.kind = "exception") =>
        /\ result = [success |-> FALSE, error |-> response.msg]
        /\ (op \in SingleOps => ended = "returned" /\ retval = result /\ exc = "")

C1_Witness ==
    /\ pc = "done"
    /\ op \in SingleOps
    /\ response.kind = "exception"
    /\ response.type = "ReadTimeout"
    /\ ended = "returned"
    /\ retval.success = FALSE

(* C2 as claimed: every answer with a status in [200,300) gives success=true with
   data = the parsed body, whatever the body. *)
C2_AnySuccessBody ==
    (Answered /\ response.kind = "response" /\ InRange(response.status_code)) =>
        /\ result # Nothing
        /\ result.success
        /\ result.data = JsonLoads(response.text)

(* C2 as amended: an answer with a status in [200,300) whose body parses as JSON gives
   success=true with data = the parsed body; one whose body does not parse gives
   success=false with error = str() of the decode exception, and nothing is raised. *)
C2_SuccessNeedsJsonBody ==
    (Answered /\ response.kind = "response" /\ InRange(response.status_code)) =>
        /\ response.text = JsonBody =>
                result = [success |-> TRUE, data |-> PyDict([id |-> "abc"])]
        /\ response.text # JsonBody =>
                result = [success |-> FALSE,
                          error |-> "Expecting value: line 1 column 1 (char 0)"]
        /\ (op \in SingleOps => ended = "returned" /\ retval = result)

C2_Witness ==
    /\ pc = "done"
    /\ op \in SingleOps
    /\ response.kind = "response"
    /\ response.status_code = 299
    /\ response.text = JsonBody
    /\ retval.success

(* C3: an answer with a status outside [200,300) gives success=false with error =
   the raw body text, and nothing is raised. *)
C3_RejectionReturned ==
    (Answered /\ response.kind = "response" /\ ~InRange(response.status_code)) =>
        /\ result = [success |-> FALSE, error |-> response.text]
        /\ (op \in SingleOps => ended = "returned" /\ retval = result /\ exc = "")

C3_Witness ==
    /\ pc = "done"
    /\ op \in SingleOps
    /\ response.kind = "response"
    /\ response.status_code = 300
    /\ response.text = JsonBody
    /\ retval = [success |-> FALSE, error |-> JsonBody]

IsPrefix(a, b) == Len(a) <= Len(b) /\ \A i \in 1..Len(a) : a[i] = b[i]

(* C4: send_batch_postbacks sends the events in input order, one at a time, and
   returns exactly n results, the i-th carrying the i-th event's transaction_id. *)
C4_BatchReturnsInOrder ==
    op = Batch =>
        /\ IsPrefix(attempted, conversions)
        /\ Len(wire) <= 1
        /\ pc = "done" =>
            /\ ended = "returned"
            /\ Len(retval) = Len(conversions)
            /\ \A i \in 1..Len(conversions) :
                    retval[i].transaction_id = conversions[i].transaction_id

(* C5: a send is attempted for every event of the batch, whatever the outcome of the
   sends before it. *)
C5_AllEventsAttempted ==
    (op = Batch /\ pc = "done") => attempted = conversions

(* C6: a pause follows every send of a batch, the last one included: the next send
   starts only after the pause, no two sends are in flight together, and a batch of
   n events has made n pauses when it ends. *)
C6_PauseAfterEverySend ==
    op = Batch =>
        /\ Len(wire) <= 1
        /\ pc = "posting" => pauses = Len(attempted) - 1
        /\ pc = "done" => pauses = Len(attempted) /\ pauses = Len(conversions)

(* C7: /batch-postbacks answers 200 with the per-item results, never an error
   response. *)
C7_BatchRouteAnswers200 ==
    (route = "/batch-postbacks" /\ pc = "done") =>
        /\ http.status_code = 200
        /\ http.body = [results |-> results]
        /\ Len(results) = Len(conversions)

\* Where asyncio is bound (the module run as a script) the batch keeps its contract.
BatchContractWhenRunAsScript ==
    asyncio_bound =>
        C4_BatchReturnsInOrder /\ C5_AllEventsAttempted /\ C6_PauseAfterEverySend

PostbackRequired ==
    {"api_key", "advertiser_id", "offer_id", "transaction_id", "status", "currency",
     "timestamp", "nonce", "signature"}

PostbackOptional == {"click_id", "amount", "custom_params"}

OnWire(url) == {i \in 1..Len(wire) : wire[i].url = url}

(* C8: every payload send_postback transmits has all nine required fields, and an
   optional field (click_id, amount, custom_params) unset in the input is no key of
   the payload. *)
C8_PostbackPayloadKeys ==
    \A i \in OnWire(PostbackUrl) :
        /\ PostbackRequired \subseteq DOMAIN wire[i].json
        /\ DOMAIN wire[i].json \subseteq PostbackRequired \cup PostbackOptional
        /\ wire[i].json.offer_id = params.offer_id
        /\ wire[i].json.transaction_id = params.transaction_id
        /\ wire[i].json.api_key = PyStr("your_api_key")
        /\ \A f \in PostbackOptional :
                params[f] = PyNone => f \notin DOMAIN wire[i].json

C8_Witness ==
    /\ pc = "posting"
    /\ op = "send_postback"
    /\ params.click_id = PyNone
    /\ params.amount = PyNone
    /\ params.custom_params # PyNone
    /\ OnWire(PostbackUrl) # {}

(* C9: /postback and /click answer 400 with the error text as detail when the
   sender's result has success=false, answer with the result when success=true, and
   send once per inbound request. *)
C9_SingleRouteAnswers ==
    (route \in {"/postback", "/click"} /\ pc = "done") =>
        /\ ended = "returned"
        /\ ~retval.success => http = [status_code |-> 400, detail |-> retval.error]
        /\ retval.success => http = [status_code |-> 200, body |-> retval]
        /\ Len(attempted) = 1

C9_Witness ==
    /\ pc = "done"
    /\ route = "/click"
    /\ ~retval.success
    /\ http.status_code = 400
    /\ http.detail = "invalid offer"

EmptyValues == {PyNone, PyStr(""), PyDict(EmptyDict)}

(* C10: an optional field given as the empty string, and custom_params given as an
   empty map, are left out of the payload like an unset one; a field with a
   non-empty value is in it; amount is in it whenever it is not None, 0 included. *)
C10_IncludedByTruthiness ==
    \A i \in 1..Len(wire) :
        /\ \A f \in (DOMAIN params \cap (PostbackOptional \cup ClickOptional)) \ {"amount"} :
                /\ params[f] \in EmptyValues => f \notin DOMAIN wire[i].json
                /\ params[f] \notin EmptyValues =>
                        f \in DOMAIN wire[i].json /\ wire[i].json[f] = params[f]
        /\ "amount" \in DOMAIN params =>
                /\ params.amount = PyNone => "amount" \notin DOMAIN wire[i].json
                /\ params.amount # PyNone =>
                        "amount" \in DOMAIN wire[i].json /\ wire[i].json.amount = params.amount

C10_Witness ==
    /\ pc = "posting"
    /\ op = "send_postback"
    /\ params.click_id = PyStr("")
    /\ params.custom_params = PyDict(EmptyDict)
    /\ params.amount = PyFloat(0)
    /\ Len(wire) = 1
    /\ DOMAIN wire[1].json = PostbackRequired \cup {"amount"}

====
